---- MODULE Spec2Model ----
(***************************************************************************)
(* Branch-and-bound driver (BranchBoundSolver::solve) over the heuristic   *)
(* LP relaxation (SimplexSolver::solveLPWithBounds) of MIPSolver.          *)
(*                                                                         *)
(* A double is modelled as [n, d, s], the rational (n / d) * 2^(120 * s)   *)
(* in lowest terms.  Products and quotients are exact; a sum is exact      *)
(* within one scale s, and across scales the term of the smaller scale is  *)
(* absorbed, as rounding to nearest does with a term below the last place  *)
(* of the other.  d = 0 encodes the IEEE specials: n = 1 is +inf, n = -1   *)
(* is -inf, n = 0 is NaN.  Vector and variable indices are 1-based here,   *)
(* 0-based in C++.                                                         *)
(***************************************************************************)
EXTENDS Integers, Sequences, FiniteSets, TLC

-----------------------------------------------------------------------------
(* double arithmetic *)

Abs(i) == IF i < 0 THEN -i ELSE i

RECURSIVE GCD(_, _)
GCD(a, b) == IF b = 0 THEN a ELSE GCD(b, a % b)

\* (n / d) * 2^(120 * s) in lowest terms; 0 has scale 0.  n / d lies between
\* 2^-31 and 2^31, so values of different scales are more than 2^53 apart
\* in magnitude
QS(n, d, s) ==
    LET g == GCD(Abs(n), Abs(d))
        sgn == IF d < 0 THEN -1 ELSE 1
    IN  IF g = 0 THEN [n |-> 0, d |-> 0, s |-> 0]
        ELSE [n |-> sgn * (n \div g), d |-> sgn * (d \div g),
              s |-> IF n = 0 \/ d = 0 THEN 0 ELSE s]

Q(n, d) == QS(n, d, 0)

Num(i) == [n |-> i, d |-> 1, s |-> 0]
Zero == Num(0)
PosInf == [n |-> 1, d |-> 0, s |-> 0]
NegInf == [n |-> -1, d |-> 0, s |-> 0]
NaN == [n |-> 0, d |-> 0, s |-> 0]

\* the double 2^120
Huge == [n |-> 1, d |-> 1, s |-> 1]

IsNaN(x) == x.d = 0 /\ x.n = 0
IsInf(x) == x.d = 0 /\ x.n # 0
IsFinite(x) == x.d # 0

\* -1, 0, +1 for -inf, finite, +inf
Rank(x) == IF x.d = 0 THEN x.n ELSE 0

Neg(x) == [n |-> -x.n, d |-> x.d, s |-> x.s]

\* x + y rounded to nearest: exact within one scale; across scales the term
\* of the smaller scale is below the last place of the other and is absorbed
Add(x, y) ==
    IF IsNaN(x) \/ IsNaN(y) THEN NaN
    ELSE IF IsInf(x) /\ IsInf(y) THEN (IF x.n = y.n THEN x ELSE NaN)
    ELSE IF IsInf(x) THEN x
    ELSE IF IsInf(y) THEN y
    ELSE IF x.s = y.s THEN QS(x.n * y.d + y.n * x.d, x.d * y.d, x.s)
    ELSE IF y.n = 0 \/ (x.n # 0 /\ x.s > y.s) THEN x
    ELSE y

Sub(x, y) == Add(x, Neg(y))

Sign(x) == IF x.n > 0 THEN 1 ELSE IF x.n < 0 THEN -1 ELSE 0

Mul(x, y) ==
    IF IsNaN(x) \/ IsNaN(y) THEN NaN
    ELSE IF IsInf(x) \/ IsInf(y)
         THEN (IF Sign(x) * Sign(y) = 0 THEN NaN
               ELSE [n |-> Sign(x) * Sign(y), d |-> 0, s |-> 0])
    ELSE QS(x.n * y.n, x.d * y.d, x.s + y.s)

\* x / y for finite x and finite non-zero y
Div(x, y) == QS(x.n * y.d, x.d * y.n, x.s - y.s)

FAbs(x) == [n |-> Abs(x.n), d |-> x.d, s |-> x.s]

\* x < y; every comparison with NaN is false
Lt(x, y) ==
    IF IsNaN(x) \/ IsNaN(y) THEN FALSE
    ELSE IF IsInf(x) \/ IsInf(y) THEN Rank(x) < Rank(y)
    ELSE IF x.s = y.s THEN x.n * y.d < y.n * x.d
    ELSE IF Sign(x) # Sign(y) THEN Sign(x) < Sign(y)
    ELSE IF x.s < y.s THEN Sign(x) > 0
    ELSE Sign(x) < 0

Le(x, y) == ~IsNaN(x) /\ ~IsNaN(y) /\ ~Lt(y, x)
Gt(x, y) == Lt(y, x)
Ge(x, y) == Le(y, x)

\* std::max(a, b) is (a < b) ? b : a and std::min(a, b) is (b < a) ? b : a
FMax(a, b) == IF Lt(a, b) THEN b ELSE a
FMin(a, b) == IF Lt(b, a) THEN b ELSE a

\* x > 1/N for a finite or infinite x and a positive integer N < 2^30
GtInv(x, N) ==
    IF x.d = 0 THEN x.n = 1
    ELSE IF x.s # 0 THEN x.s > 0 /\ x.n > 0
    ELSE x.n > 0 /\ (x.d \div x.n) < N

\* x < 1/N
LtInv(x, N) ==
    IF x.d = 0 THEN x.n = -1
    ELSE IF x.s # 0 THEN x.s < 0 \/ x.n < 0
    ELSE x.n <= 0 \/ (x.d \div x.n) > N \/ ((x.d \div x.n) = N /\ (x.d % x.n) # 0)

\* a > b + 1/N   (the tolerances of the program are 1e-9 and 1e-6)
GtTol(a, b, N) ==
    IF IsInf(a) \/ IsInf(b) THEN Lt(b, a) ELSE GtInv(Sub(a, b), N)

\* a < b - 1/N
LtTol(a, b, N) == GtTol(b, a, N)

\* a value of a scale above 0 is an integer, one of a scale below 0 is
\* below 1 in magnitude
Floor(x) ==
    IF x.s = 0 THEN Num(x.n \div x.d)
    ELSE IF x.s > 0 THEN x
    ELSE IF x.n < 0 THEN Num(-1) ELSE Zero

\* std::floor where std::ceil is meant
CeilAsFloor(x) == Floor(x)

Ceil(x) ==
    IF x.s = 0 THEN Num(-((-x.n) \div x.d))
    ELSE IF x.s > 0 THEN x
    ELSE IF x.n > 0 THEN Num(1) ELSE Zero

\* std::round: halves away from zero
Round(x) ==
    IF x.s # 0 THEN (IF x.s > 0 THEN x ELSE Zero)
    ELSE IF x.n >= 0 THEN Num((2 * x.n + x.d) \div (2 * x.d))
    ELSE Num(-((2 * (-x.n) + x.d) \div (2 * x.d)))

E9 == 1000000000
E6 == 1000000

-----------------------------------------------------------------------------
(* core.h: Variable, Constraint, Problem *)

VariableType == {"CONTINUOUS", "INTEGER", "BINARY"}
ConstraintType == {"LESS_EQUAL", "GREATER_EQUAL", "EQUAL"}
ObjectiveType == {"MAXIMIZE", "MINIMIZE"}

\* Variable::Variable: unbounded, objective coefficient 0
NewVariable(type) ==
    [type |-> type, lower_bound |-> NegInf, upper_bound |-> PosInf,
     coefficient |-> Zero]

\* Variable::setBounds
setBounds(var, lower, upper) ==
    [var EXCEPT !.lower_bound = lower, !.upper_bound = upper]

getNumVariables(problem) == Len(problem.variables)
getNumConstraints(problem) == Len(problem.constraints)

\* the sequences in which the term map of a constraint can be iterated
KeyOrders(constraint) ==
    LET K == DOMAIN constraint.coefficients
    IN  {o \in [1..Cardinality(K) -> K] : \A i, j \in DOMAIN o : i # j => o[i] # o[j]}

\* every constraint of the problem with one iteration order of its term map
MapOrders(problem) ==
    {ord \in [DOMAIN problem.constraints -> UNION {KeyOrders(problem.constraints[c]) :
                                                      c \in DOMAIN problem.constraints}] :
        \A c \in DOMAIN problem.constraints : ord[c] \in KeyOrders(problem.constraints[c])}

\* the order by ascending variable index
RECURSIVE SortedKeys(_)
SortedKeys(K) ==
    IF K = {} THEN <<>>
    ELSE LET m == CHOOSE x \in K : \A y \in K : x <= y
         IN  <<m>> \o SortedKeys(K \ {m})

IndexOrder(problem) ==
    [c \in DOMAIN problem.constraints |->
        SortedKeys(DOMAIN problem.constraints[c].coefficients)]

\* lhs = sum of coeff * solution[var_idx] over the term map, keys beyond the
\* solution vector skipped
RECURSIVE LhsFrom(_, _, _, _, _)
LhsFrom(constraint, solution, order, k, lhs) ==
    IF k > Len(order) THEN lhs
    ELSE LET var_idx == order[k]
         IN  LhsFrom(constraint, solution, order, k + 1,
                     IF var_idx >= 1 /\ var_idx <= Len(solution)
                     THEN Add(lhs, Mul(constraint.coefficients[var_idx], solution[var_idx]))
                     ELSE lhs)

Lhs(constraint, solution, order) == LhsFrom(constraint, solution, order, 1, Zero)

\* Constraint::isSatisfied
isSatisfied(constraint, solution, order) ==
    LET lhs == Lhs(constraint, solution, order)
    IN  CASE constraint.type = "LESS_EQUAL" -> ~GtTol(lhs, constraint.rhs, E9)
          [] constraint.type = "GREATER_EQUAL" -> ~LtTol(lhs, constraint.rhs, E9)
          [] constraint.type = "EQUAL" -> LtInv(FAbs(Sub(lhs, constraint.rhs)), E9)

\* Problem::isValidSolution
isValidSolution(problem, solution) ==
    /\ Len(solution) = Len(problem.variables)
    /\ \A i \in DOMAIN problem.variables :
          ~(\/ LtTol(solution[i], problem.variables[i].lower_bound, E9)
            \/ GtTol(solution[i], problem.variables[i].upper_bound, E9))
    /\ \A c \in DOMAIN problem.constraints :
          isSatisfied(problem.constraints[c], solution, IndexOrder(problem)[c])

\* Problem::calculateObjectiveValue
RECURSIVE ObjectiveFrom(_, _, _, _)
ObjectiveFrom(problem, solution, i, value) ==
    IF i > Len(problem.variables) \/ i > Len(solution) THEN value
    ELSE ObjectiveFrom(problem, solution, i + 1,
                       Add(value, Mul(problem.variables[i].coefficient, solution[i])))

calculateObjectiveValue(problem, solution) == ObjectiveFrom(problem, solution, 1, Zero)

-----------------------------------------------------------------------------
(* simplex_solver.h: SimplexSolver *)

MAX_ITERATIONS == 20
SentinelUpper == 100

\* in 1/10: the acceptance threshold 0.1 on the total violation
AcceptTenths == 1
\* the iteration after which a violation above 1.0 gives up (iter > 5)
GiveUpAfter == 5

\* the check of one constraint in satisfyConstraints (tolerance 1e-6)
Violation(type, lhs, rhs) ==
    CASE type = "LESS_EQUAL" ->
            IF GtTol(lhs, rhs, E6) THEN [violated |-> TRUE, violation |-> Sub(lhs, rhs)]
            ELSE [violated |-> FALSE, violation |-> Zero]
      [] type = "GREATER_EQUAL" ->
            IF LtTol(lhs, rhs, E6) THEN [violated |-> TRUE, violation |-> Sub(rhs, lhs)]
            ELSE [violated |-> FALSE, violation |-> Zero]
      [] type = "EQUAL" ->
            IF GtInv(FAbs(Sub(lhs, rhs)), E6)
            THEN [violated |-> TRUE, violation |-> FAbs(Sub(lhs, rhs))]
            ELSE [violated |-> FALSE, violation |-> Zero]

\* fixConstraintViolation, first loop: the adjustable variables in iteration
\* order and the sum of their |coeff|
RECURSIVE Adjustable(_, _, _, _, _, _)
Adjustable(problem, solution, coeffs, order, target_change, k) ==
    IF k > Len(order) THEN [vars |-> <<>>, total_weight |-> Zero]
    ELSE
      LET var_idx == order[k]
          coeff == coeffs[var_idx]
          rest == Adjustable(problem, solution, coeffs, order, target_change, k + 1)
      IN  IF var_idx >= 1 /\ var_idx <= Len(solution) /\ GtInv(FAbs(coeff), E9)
          THEN LET var == problem.variables[var_idx]
                   can_adjust ==
                       IF Gt(Mul(target_change, coeff), Zero)
                       THEN LtTol(solution[var_idx], var.upper_bound, E9)
                       ELSE GtTol(solution[var_idx], var.lower_bound, E9)
               IN  IF can_adjust
                   THEN [vars |-> <<var_idx>> \o rest.vars,
                         total_weight |-> Add(FAbs(coeff), rest.total_weight)]
                   ELSE rest
          ELSE rest

\* fixConstraintViolation, second loop: the proportional adjustment
RECURSIVE Adjust(_, _, _, _, _, _, _)
Adjust(problem, solution, coeffs, adjustable_vars, total_weight, target_change, k) ==
    IF k > Len(adjustable_vars) THEN solution
    ELSE
      LET var_idx == adjustable_vars[k]
          coeff == coeffs[var_idx]
          weight == Div(FAbs(coeff), total_weight)
          var_change == Div(Mul(target_change, weight), coeff)
          var == problem.variables[var_idx]
          new_value == FMax(var.lower_bound,
                            FMin(var.upper_bound, Add(solution[var_idx], var_change)))
      IN  Adjust(problem, [solution EXCEPT ![var_idx] = new_value], coeffs,
                 adjustable_vars, total_weight, target_change, k + 1)

fixConstraintViolation(problem, solution, constraint_idx, lhs, rhs, type, order) ==
    LET coeffs == problem.constraints[constraint_idx].coefficients
        target_change ==
            CASE type = "LESS_EQUAL" -> IF Gt(lhs, rhs) THEN Sub(rhs, lhs) ELSE Zero
              [] type = "GREATER_EQUAL" -> IF Lt(lhs, rhs) THEN Sub(rhs, lhs) ELSE Zero
              [] type = "EQUAL" -> Sub(rhs, lhs)
        adj == Adjustable(problem, solution, coeffs, order, target_change, 1)
    IN  IF LtInv(FAbs(target_change), E9) THEN solution
        ELSE IF adj.vars = <<>> \/ LtInv(adj.total_weight, E9) THEN solution
        ELSE Adjust(problem, solution, coeffs, adj.vars, adj.total_weight,
                    target_change, 1)

\* satisfyConstraints: one pass over the constraints, from constraint c on
RECURSIVE RepairPass(_, _, _, _)
RepairPass(problem, ord, c, st) ==
    IF c > getNumConstraints(problem) THEN st
    ELSE
      LET constraint == problem.constraints[c]
          lhs == Lhs(constraint, st.solution, ord[c])
          v == Violation(constraint.type, lhs, constraint.rhs)
      IN  IF v.violated
          THEN RepairPass(problem, ord, c + 1,
                   [solution |-> fixConstraintViolation(problem, st.solution, c, lhs,
                                     constraint.rhs, constraint.type, ord[c]),
                    all_satisfied |-> FALSE,
                    max_violation |-> FMax(st.max_violation, v.violation)])
          ELSE RepairPass(problem, ord, c + 1, st)

\* satisfyConstraints: the total violation of the final check
RECURSIVE TotalViolation(_, _, _, _, _)
TotalViolation(problem, ord, solution, c, total) ==
    IF c > getNumConstraints(problem) THEN total
    ELSE
      LET constraint == problem.constraints[c]
          lhs == Lhs(constraint, solution, ord[c])
          rhs == constraint.rhs
          add ==
            CASE constraint.type = "LESS_EQUAL" ->
                    IF GtTol(lhs, rhs, E6) THEN Sub(lhs, rhs) ELSE Zero
              [] constraint.type = "GREATER_EQUAL" ->
                    IF LtTol(lhs, rhs, E6) THEN Sub(rhs, lhs) ELSE Zero
              [] constraint.type = "EQUAL" -> FAbs(Sub(lhs, rhs))
      IN  TotalViolation(problem, ord, solution, c + 1, Add(total, add))

\* satisfyConstraints from outer iteration iter on: [ok, solution, iter]
RECURSIVE satisfyFrom(_, _, _, _)
satisfyFrom(problem, ord, solution, iter) ==
    IF iter >= MAX_ITERATIONS
    THEN [ok |-> Lt(TotalViolation(problem, ord, solution, 1, Zero), Q(AcceptTenths, 10)),
          solution |-> solution, iter |-> iter]
    ELSE
      LET st == RepairPass(problem, ord, 1,
                    [solution |-> solution, all_satisfied |-> TRUE,
                     max_violation |-> Zero])
      IN  IF st.all_satisfied
          THEN [ok |-> TRUE, solution |-> st.solution, iter |-> iter]
          ELSE IF iter > GiveUpAfter /\ Gt(st.max_violation, Num(1))
          THEN [ok |-> FALSE, solution |-> st.solution, iter |-> iter]
          ELSE satisfyFrom(problem, ord, st.solution, iter + 1)

satisfyConstraints(problem, ord, solution) == satisfyFrom(problem, ord, solution, 0)

\* every variable started at its lower bound, whatever the objective
InitialValueAtLower(var, objective_type) ==
    IF IsInf(var.lower_bound)
    THEN (IF Gt(var.lower_bound, Zero) THEN Num(SentinelUpper) ELSE Zero)
    ELSE var.lower_bound

\* solveLPWithBounds: the value a variable starts at
InitialValue(var, objective_type) ==
    IF LtInv(FAbs(Sub(var.lower_bound, var.upper_bound)), E9)
    THEN var.lower_bound
    ELSE
      LET chosen ==
            IF objective_type = "MAXIMIZE"
            THEN (IF Gt(var.coefficient, Zero) THEN var.upper_bound ELSE var.lower_bound)
            ELSE (IF Gt(var.coefficient, Zero) THEN var.lower_bound ELSE var.upper_bound)
      IN  IF IsInf(chosen)
          THEN (IF Gt(chosen, Zero) THEN Num(SentinelUpper) ELSE Zero)
          ELSE chosen

\* solveLPWithBounds without the test of the bounds
solveLPUnscreened(problem, ord) ==
    LET n == getNumVariables(problem)
        initial == [i \in 1..n |->
                       InitialValue(problem.variables[i], problem.objective_type)]
        r == satisfyConstraints(problem, ord, initial)
    IN  [is_optimal |-> TRUE, is_unbounded |-> FALSE, is_infeasible |-> ~r.ok,
         solution |-> r.solution,
         objective_value |-> IF r.ok THEN calculateObjectiveValue(problem, r.solution)
                             ELSE Zero,
         iterations |-> 1]

\* solveLPWithBounds (solveLPRelaxation forwards to it); the solution vector
\* of an infeasible result is what the code leaves in it
solveLPWithBounds(problem, ord) ==
    LET n == getNumVariables(problem)
        blank == [i \in 1..n |-> Zero]
        initial == [i \in 1..n |->
                       InitialValue(problem.variables[i], problem.objective_type)]
    IN  IF \E i \in 1..n : GtTol(problem.variables[i].lower_bound,
                                 problem.variables[i].upper_bound, E9)
        THEN [is_optimal |-> TRUE, is_unbounded |-> FALSE, is_infeasible |-> TRUE,
              solution |-> blank, objective_value |-> Zero, iterations |-> 1]
        ELSE
          LET r == satisfyConstraints(problem, ord, initial)
          IN  IF ~r.ok
              THEN [is_optimal |-> TRUE, is_unbounded |-> FALSE, is_infeasible |-> TRUE,
                    solution |-> r.solution, objective_value |-> Zero, iterations |-> 1]
              ELSE [is_optimal |-> TRUE, is_unbounded |-> FALSE, is_infeasible |-> FALSE,
                    solution |-> r.solution,
                    objective_value |-> calculateObjectiveValue(problem, r.solution),
                    iterations |-> 1]

solveLPRelaxation(problem, ord) == solveLPWithBounds(problem, ord)

-----------------------------------------------------------------------------
(* branch_bound_solver.h: BranchBoundSolver *)

\* shouldPrune
shouldPrune(node_bound, best_obj, obj_type) ==
    IF obj_type = "MINIMIZE"
    THEN ~LtTol(node_bound, best_obj, E6)
    ELSE ~GtTol(node_bound, best_obj, E6)

\* isBetterSolution with a tolerance of 1 for 1e-6
isBetterByOne(new_obj, current_best, obj_type) ==
    IF obj_type = "MINIMIZE"
    THEN LtTol(new_obj, current_best, 1)
    ELSE GtTol(new_obj, current_best, 1)

\* isBetterSolution
isBetterSolution(new_obj, current_best, obj_type) ==
    IF obj_type = "MINIMIZE"
    THEN LtTol(new_obj, current_best, E6)
    ELSE GtTol(new_obj, current_best, E6)

\* every kind of variable taken as integral
IsIntegralAlways(type) == type \in VariableType

\* the test of the variable kind in isIntegerFeasible and findBranchingVariable
IsIntegral(type) == type = "INTEGER" \/ type = "BINARY"

\* |val - round(val)|
FractionalPart(val) == FAbs(Sub(val, Round(val)))

\* isIntegerFeasible
isIntegerFeasible(sol, prob) ==
    \A i \in 1..getNumVariables(prob) :
        IsIntegral(prob.variables[i].type) => ~GtInv(FractionalPart(sol[i]), E6)

\* findBranchingVariable: the loop from variable i on; 0 stands for the -1
\* of the code (no variable)
RECURSIVE BranchingFrom(_, _, _, _, _)
BranchingFrom(sol, prob, i, branch_var, max_fractional) ==
    IF i > getNumVariables(prob) THEN branch_var
    ELSE IF /\ IsIntegral(prob.variables[i].type)
            /\ GtInv(FractionalPart(sol[i]), E6)
            /\ Gt(FractionalPart(sol[i]), max_fractional)
         THEN BranchingFrom(sol, prob, i + 1, i, FractionalPart(sol[i]))
         ELSE BranchingFrom(sol, prob, i + 1, branch_var, max_fractional)

\* the loop with >= for > in the comparison with max_fractional: the last
\* variable of a tie is kept
RECURSIVE BranchingFromLast(_, _, _, _, _)
BranchingFromLast(sol, prob, i, branch_var, max_fractional) ==
    IF i > getNumVariables(prob) THEN branch_var
    ELSE IF /\ IsIntegral(prob.variables[i].type)
            /\ GtInv(FractionalPart(sol[i]), E6)
            /\ Ge(FractionalPart(sol[i]), max_fractional)
         THEN BranchingFromLast(sol, prob, i + 1, i, FractionalPart(sol[i]))
         ELSE BranchingFromLast(sol, prob, i + 1, branch_var, max_fractional)

findBranchingVariableLast(sol, prob) == BranchingFromLast(sol, prob, 1, 0, Zero)

findBranchingVariable(sol, prob) == BranchingFrom(sol, prob, 1, 0, Zero)

\* the denominator of a value a double holds exactly
RECURSIVE IsPowerOfTwo(_)
IsPowerOfTwo(d) == d = 1 \/ (d > 1 /\ d % 2 = 0 /\ IsPowerOfTwo(d \div 2))

Exact(x) == IsPowerOfTwo(x.d)

\* the variables with the largest fractional part
Tied(sol, prob) ==
    { i \in 1..getNumVariables(prob) :
        /\ IsIntegral(prob.variables[i].type)
        /\ findBranchingVariable(sol, prob) # 0
        /\ FractionalPart(sol[i]) = FractionalPart(sol[findBranchingVariable(sol, prob)]) }

\* what findBranchingVariable can return for the doubles nearest to sol: the
\* fractional parts of two doubles that stand for values with equal
\* fractional parts differ by their rounding errors unless both values are
\* exact, so fractional_part > max_fractional (line 392) can hold for a later
\* variable of a tie
BranchingVariables(sol, prob) ==
    { findBranchingVariable(sol, prob) } \cup
    { i \in Tied(sol, prob) : \E j \in Tied(sol, prob) : j <= i /\ ~Exact(sol[j]) }

\* addBound with the new bounds replacing the current ones
addBoundReplacing(prob, var_index, lower, upper) ==
    [prob EXCEPT !.variables[var_index] = setBounds(prob.variables[var_index], lower, upper)]

\* addBound applied to every variable of the Problem
addBoundEvery(prob, var_index, lower, upper) ==
    [prob EXCEPT !.variables =
        [i \in DOMAIN prob.variables |->
            setBounds(prob.variables[i], FMax(prob.variables[i].lower_bound, lower),
                      FMin(prob.variables[i].upper_bound, upper))]]

\* addBound: the new bounds intersected with the current ones
addBound(prob, var_index, lower, upper) ==
    LET var == prob.variables[var_index]
        new_lower == FMax(var.lower_bound, lower)
        new_upper == FMin(var.upper_bound, upper)
    IN  [prob EXCEPT !.variables[var_index] = setBounds(var, new_lower, new_upper)]

-----------------------------------------------------------------------------
(* the problems and limits solve is called with *)

MaxRhs == 3
MaxIterLimit == 6

\* stop after the root, or after MaxIterLimit nodes
IterationLimits == {1, MaxIterLimit}

VarCounts == {1, 2}
ConCounts == {0, 1}
ObjCoeffs == {-1, 0, 1}
TermCoeffs == {0, 1, 2}

\* kind and bounds of a variable: x >= 0 continuous or integer, binary in
\* [0, 1], and an integer x <= -1 without a lower bound
VarKinds ==
    { <<"CONTINUOUS", Zero, PosInf>>, <<"INTEGER", Zero, PosInf>>,
      <<"BINARY", Zero, Num(1)>>, <<"INTEGER", NegInf, Num(-1)>> }

Variables ==
    { [type |-> v[1], lower_bound |-> v[2], upper_bound |-> v[3], coefficient |-> Num(k)] :
        v \in VarKinds, k \in ObjCoeffs }

\* a term map over the first n variables: coefficient 0 means no entry
TermMaps(n) ==
    { [i \in {j \in 1..n : f[j] # 0} |-> Num(f[i])] : f \in [1..n -> TermCoeffs] }

Constraints(n) ==
    { [type |-> t, rhs |-> Num(MaxRhs), coefficients |-> m] :
        t \in ConstraintType, m \in TermMaps(n) }

\* the literal problems of the self-tests and of the end-to-end scenarios
Var(type, lower, upper, k) ==
    [type |-> type, lower_bound |-> lower, upper_bound |-> upper, coefficient |-> Num(k)]

Con(type, rhs, terms) == [type |-> type, rhs |-> Num(rhs), coefficients |-> terms]

Terms2(a, b) == [i \in {1, 2} |-> IF i = 1 THEN Num(a) ELSE Num(b)]

Knapsack(lower, upper) ==
    [objective_type |-> "MAXIMIZE",
     variables |-> << Var("BINARY", lower, upper, 5), Var("BINARY", lower, upper, 8) >>,
     constraints |-> << Con("LESS_EQUAL", 10, Terms2(2, 4)) >>]

InfeasibleBounds ==
    [objective_type |-> "MINIMIZE",
     variables |-> << Var("CONTINUOUS", Num(5), Num(3), 1) >>,
     constraints |-> << >>]

PureLP(type) ==
    [objective_type |-> "MAXIMIZE",
     variables |-> << Var(type, Zero, PosInf, 1), Var(type, Zero, PosInf, 2) >>,
     constraints |-> << Con("LESS_EQUAL", 10, Terms2(1, 1)) >>]

BranchingRequired ==
    [objective_type |-> "MAXIMIZE",
     variables |-> << Var("INTEGER", Zero, PosInf, 3), Var("INTEGER", Zero, PosInf, 2) >>,
     constraints |-> << Con("LESS_EQUAL", 4, Terms2(1, 1)),
                        Con("LESS_EQUAL", 6, Terms2(1, 3)) >>]

\* the terms 2^120, 1 and -2^120 over three variables fixed at 1: summed in
\* the order 1, 2, 3 the 1 is absorbed and the sum is 0
Cancelling ==
    [objective_type |-> "MAXIMIZE",
     variables |-> << Var("INTEGER", Num(1), Num(1), 1), Var("INTEGER", Num(1), Num(1), 1),
                      Var("INTEGER", Num(1), Num(1), 1) >>,
     constraints |-> << [type |-> "LESS_EQUAL", rhs |-> Zero,
                         coefficients |-> [i \in {1, 2, 3} |->
                             IF i = 1 THEN Huge
                             ELSE IF i = 2 THEN Num(1)
                             ELSE Neg(Huge)]] >>]

\* Minimize x over [0, 1] under one constraint without terms, 0 <type> rhs,
\* with rhs at 0, 1/20, 1/10 and 1/2 on either side of 0
EmptyRhs == { Q(k, 20) : k \in {-10, -2, -1, 0, 1, 2, 10} }

EmptyConstraint(type, rhs) ==
    [objective_type |-> "MINIMIZE",
     variables |-> << Var("CONTINUOUS", Zero, Num(1), 1) >>,
     constraints |-> << [type |-> type, rhs |-> rhs, coefficients |-> << >>] >>]

\* a second variable with lower = 1 above upper = 0 next to a sound one
CrossedBounds(type, objective_type) ==
    [objective_type |-> objective_type,
     variables |-> << Var("INTEGER", Zero, PosInf, 1), Var(type, Num(1), Zero, 1) >>,
     constraints |-> << Con("LESS_EQUAL", MaxRhs, Terms2(1, 1)) >>]

\* an INTEGER variable whose upper bound 2.0000005 is within 1e-6 of 2
NearIntegral(objective_type) ==
    [objective_type |-> objective_type,
     variables |-> << [type |-> "INTEGER", lower_bound |-> Zero,
                       upper_bound |-> Q(20000005, 10000000), coefficient |-> Num(1)] >>,
     constraints |-> << >>]

Scenarios ==
    { Knapsack(Zero, Num(1)), Knapsack(NegInf, PosInf), InfeasibleBounds,
      PureLP("CONTINUOUS"), PureLP("INTEGER"), BranchingRequired, Cancelling } \cup
    { NearIntegral(o) : o \in ObjectiveType } \cup
    { CrossedBounds(t, o) : t \in VariableType, o \in ObjectiveType } \cup
    { EmptyConstraint(t, rhs) : t \in ConstraintType, rhs \in EmptyRhs }

-----------------------------------------------------------------------------
(* BranchBoundSolver::solve as a state machine: one step per loop iteration *)

VARIABLES
    problem,           \* the Problem solve is called with
    iteration_limit_,  \* SolverInterface::iteration_limit_
    pc,                \* "loop": at the loop test; "node": the LP of the popped
                       \* node is solved; "done": solve has returned
    node_stack,        \* the frontier, last element on top
    current_node,      \* the node popped last
    lp_result,         \* the LP relaxation of current_node
    best_objective,
    best_solution,
    nodes_processed,
    nodes_pruned,
    solution,          \* the Solution solve builds and returns
    elapsed,           \* milliseconds since start_time
    log,               \* what the verbose output reports of every node
    last_call          \* the last call that built the Problem, and how it ended

vars == <<problem, iteration_limit_, pc, node_stack, current_node, lp_result,
          best_objective, best_solution, nodes_processed, nodes_pruned, solution,
          elapsed, log, last_call>>

\* Solution(n): all values zero, no status yet
NewSolution(n) ==
    [status |-> "UNKNOWN", values |-> [i \in 1..n |-> Zero],
     objective_value |-> Zero, iterations |-> 0, solve_time |-> 0]

\* the initial value of the incumbent objective and of the root bound
WorstObjective(obj_type) == IF obj_type = "MINIMIZE" THEN PosInf ELSE NegInf
BestBound(obj_type) == IF obj_type = "MINIMIZE" THEN NegInf ELSE PosInf

NoNode == [problem |-> <<>>, depth |-> -1, bound |-> NaN]
NoResult ==
    [is_optimal |-> FALSE, is_unbounded |-> FALSE, is_infeasible |-> FALSE,
     solution |-> <<>>, objective_value |-> NaN, iterations |-> 0]

\* no call yet, or the Problem was handed over complete
NoCall == [op |-> "none", in_range |-> TRUE, result |-> "returned"]

\* problem is one of the problems with n variables
IsProblem(n) ==
    \E o \in ObjectiveType, vs \in [1..n -> Variables] :
        \E m \in ConCounts :
            \E cs \in [1..m -> Constraints(n)] :
                problem = [objective_type |-> o, variables |-> vs, constraints |-> cs]

\* solve, up to the loop (lines 113-141)
Init ==
    /\ \/ \E n \in VarCounts : IsProblem(n)
       \/ problem \in Scenarios
    /\ iteration_limit_ \in IterationLimits
    /\ pc = "loop"
    /\ node_stack = << [problem |-> problem, depth |-> 0,
                        bound |-> BestBound(problem.objective_type)] >>
    /\ current_node = NoNode
    /\ lp_result = NoResult
    /\ best_objective = WorstObjective(problem.objective_type)
    /\ best_solution = [i \in 1..getNumVariables(problem) |-> Zero]
    /\ nodes_processed = 0
    /\ nodes_pruned = 0
    /\ solution = NewSolution(getNumVariables(problem))
    /\ elapsed = 0
    /\ log = <<>>
    /\ last_call = NoCall

\* the loop test without the iteration limit
LoopContinuesUnlimited == node_stack # <<>>

\* the loop test (line 143)
LoopContinues == node_stack # <<>> /\ nodes_processed < iteration_limit_

\* lines 144-153: pop the top node, count it and solve its LP relaxation, the
\* term maps of its constraints iterated in the orders ord
PopNodeWith(ord) ==
    /\ pc = "loop"
    /\ LoopContinues
    /\ current_node' = node_stack[Len(node_stack)]
    /\ node_stack' = SubSeq(node_stack, 1, Len(node_stack) - 1)
    /\ nodes_processed' = nodes_processed + 1
    /\ lp_result' = solveLPRelaxation(node_stack[Len(node_stack)].problem, ord)
    /\ pc' = "node"
    /\ UNCHANGED <<last_call, problem, iteration_limit_, best_objective, best_solution,
                   nodes_pruned, solution, elapsed, log>>

PopNode ==
    /\ pc = "loop"
    /\ LoopContinues
    /\ \E ord \in MapOrders(node_stack[Len(node_stack)].problem) : PopNodeWith(ord)

\* the loop body taking every integer feasible LP solution as the incumbent
OutcomeWithoutComparison(lp, best) ==
    IF lp.is_infeasible THEN "lp_infeasible"
    ELSE IF lp.is_unbounded /\ problem.objective_type = "MINIMIZE" THEN "unbounded"
    ELSE IF isIntegerFeasible(lp.solution, problem) THEN "new_incumbent"
    ELSE IF findBranchingVariable(lp.solution, problem) = 0 THEN "no_fractional"
    ELSE "branched"

\* what the rest of the loop body does with the LP result (lines 155-214)
Outcome(lp, best) ==
    IF lp.is_infeasible THEN "lp_infeasible"
    ELSE IF lp.is_unbounded /\ problem.objective_type = "MINIMIZE" THEN "unbounded"
    ELSE IF shouldPrune(lp.objective_value, best, problem.objective_type)
         THEN "bound_pruned"
    ELSE IF isIntegerFeasible(lp.solution, problem)
         THEN (IF isBetterSolution(lp.objective_value, best, problem.objective_type)
               THEN "new_incumbent" ELSE "integer_not_better")
    ELSE IF findBranchingVariable(lp.solution, problem) = 0 THEN "no_fractional"
    ELSE "branched"

Logged ==
    Append(log, [node |-> current_node, lp |-> lp_result,
                 outcome |-> Outcome(lp_result, best_objective)])

\* lines 155-170: the LP is infeasible (the node is pruned), or unbounded
\* under MINIMIZE (solve returns UNBOUNDED at once)
LPStatus ==
    /\ pc = "node"
    /\ Outcome(lp_result, best_objective) \in {"lp_infeasible", "unbounded"}
    /\ log' = Logged
    /\ IF Outcome(lp_result, best_objective) = "unbounded"
       THEN /\ solution' = [solution EXCEPT !.status = "UNBOUNDED"]
            /\ pc' = "done"
            /\ UNCHANGED nodes_pruned
       ELSE /\ nodes_pruned' = nodes_pruned + 1
            /\ pc' = "loop"
            /\ UNCHANGED solution
    /\ UNCHANGED <<last_call, problem, iteration_limit_, node_stack, current_node, lp_result,
                   best_objective, best_solution, nodes_processed, elapsed>>

\* lines 177-185: the LP objective cannot beat the incumbent
BoundPrune ==
    /\ pc = "node"
    /\ Outcome(lp_result, best_objective) = "bound_pruned"
    /\ nodes_pruned' = nodes_pruned + 1
    /\ log' = Logged
    /\ pc' = "loop"
    /\ UNCHANGED <<last_call, problem, iteration_limit_, node_stack, current_node, lp_result,
                   best_objective, best_solution, nodes_processed, solution, elapsed>>

\* the update of the incumbent without best_solution = lp_result.solution
IntegerSolutionObjectiveOnly ==
    /\ pc = "node"
    /\ Outcome(lp_result, best_objective) \in {"new_incumbent", "integer_not_better"}
    /\ best_objective' = IF Outcome(lp_result, best_objective) = "new_incumbent"
                         THEN lp_result.objective_value ELSE best_objective
    /\ log' = Logged
    /\ pc' = "loop"
    /\ UNCHANGED <<last_call, problem, iteration_limit_, node_stack, current_node, lp_result,
                   best_solution, nodes_processed, nodes_pruned, solution, elapsed>>

\* lines 187-205: the LP solution is integer feasible
IntegerSolution ==
    /\ pc = "node"
    /\ Outcome(lp_result, best_objective) \in {"new_incumbent", "integer_not_better"}
    /\ IF Outcome(lp_result, best_objective) = "new_incumbent"
       THEN /\ best_objective' = lp_result.objective_value
            /\ best_solution' = lp_result.solution
       ELSE UNCHANGED <<best_objective, best_solution>>
    /\ log' = Logged
    /\ pc' = "loop"
    /\ UNCHANGED <<last_call, problem, iteration_limit_, node_stack, current_node, lp_result,
                   nodes_processed, nodes_pruned, solution, elapsed>>

\* branching that keeps the left (down) child only
ChildrenDownOnly(node, lp, branch_var) ==
    << [problem |-> addBound(node.problem, branch_var, NegInf,
                             Floor(lp.solution[branch_var])),
        depth |-> node.depth + 1, bound |-> lp.objective_value] >>

\* the two children pushed left (down) child first, so that the right (up)
\* child is on top
ChildrenUpOnTop(node, lp, branch_var) ==
    << [problem |-> addBound(node.problem, branch_var, NegInf,
                             Floor(lp.solution[branch_var])),
        depth |-> node.depth + 1, bound |-> lp.objective_value],
       [problem |-> addBound(node.problem, branch_var,
                             Ceil(lp.solution[branch_var]), PosInf),
        depth |-> node.depth + 1, bound |-> lp.objective_value] >>

\* lines 223-238: the two children of a node, the right (up) child first
Children(node, lp, branch_var) ==
    LET branch_value == lp.solution[branch_var]
        left_child == [problem |-> addBound(node.problem, branch_var, NegInf,
                                            Floor(branch_value)),
                       depth |-> node.depth + 1, bound |-> lp.objective_value]
        right_child == [problem |-> addBound(node.problem, branch_var,
                                             Ceil(branch_value), PosInf),
                        depth |-> node.depth + 1, bound |-> lp.objective_value]
    IN  <<right_child, left_child>>

\* branching that bounds the variable in the Problem of the caller as well
BranchInPlace ==
    /\ pc = "node"
    /\ Outcome(lp_result, best_objective) \in {"branched", "no_fractional"}
    /\ \E branch_var \in BranchingVariables(lp_result.solution, problem) :
        /\ node_stack' = IF Outcome(lp_result, best_objective) = "branched"
                         THEN node_stack \o Children(current_node, lp_result, branch_var)
                         ELSE node_stack
        /\ problem' = IF Outcome(lp_result, best_objective) = "branched"
                      THEN Children(current_node, lp_result, branch_var)[2].problem
                      ELSE problem
    /\ log' = Logged
    /\ pc' = "loop"
    /\ UNCHANGED <<last_call, iteration_limit_, current_node, lp_result, best_objective,
                   best_solution, nodes_processed, nodes_pruned, solution, elapsed>>

\* lines 207-247: branch on the most fractional variable
Branch ==
    /\ pc = "node"
    /\ Outcome(lp_result, best_objective) \in {"branched", "no_fractional"}
    /\ \E branch_var \in BranchingVariables(lp_result.solution, problem) :
        node_stack' = IF Outcome(lp_result, best_objective) = "branched"
                      THEN node_stack \o Children(current_node, lp_result, branch_var)
                      ELSE node_stack
    /\ log' = Logged
    /\ pc' = "loop"
    /\ UNCHANGED <<last_call, problem, iteration_limit_, current_node, lp_result, best_objective,
                   best_solution, nodes_processed, nodes_pruned, solution, elapsed>>

\* the status with the iteration limit tested first
FinalStatusLimitFirst ==
    IF nodes_processed >= iteration_limit_ THEN "ITERATION_LIMIT"
    ELSE IF best_objective = PosInf \/ best_objective = NegInf THEN "INFEASIBLE"
    ELSE "OPTIMAL"

\* lines 261-269: the status of the returned Solution
FinalStatus ==
    IF best_objective = PosInf \/ best_objective = NegInf THEN "INFEASIBLE"
    ELSE IF nodes_processed >= iteration_limit_ THEN "ITERATION_LIMIT"
    ELSE "OPTIMAL"

\* lines 250-278: the loop has ended; fill in and return the Solution
Finish ==
    /\ pc = "loop"
    /\ ~LoopContinues
    /\ solution' = [status |-> FinalStatus, values |-> best_solution,
                    objective_value |-> best_objective,
                    iterations |-> nodes_processed, solve_time |-> elapsed]
    /\ pc' = "done"
    /\ UNCHANGED <<last_call, problem, iteration_limit_, node_stack, current_node, lp_result,
                   best_objective, best_solution, nodes_processed, nodes_pruned,
                   elapsed, log>>

Next ==
    \/ PopNode
    \/ LPStatus
    \/ BoundPrune
    \/ IntegerSolution
    \/ Branch
    \/ Finish

Spec == Init /\ [][Next]_vars

-----------------------------------------------------------------------------
(* the clock: solve reads it at start_time and end_time only *)

MaxElapsed == 1
TimeLimit == 1

\* a millisecond passes while solve runs
Tick ==
    /\ pc # "done"
    /\ elapsed < MaxElapsed
    /\ elapsed' = elapsed + 1
    /\ UNCHANGED <<last_call, problem, iteration_limit_, pc, node_stack, current_node, lp_result,
                   best_objective, best_solution, nodes_processed, nodes_pruned,
                   solution, log>>

TimedNext == Next \/ Tick

TimedSpec == Init /\ [][TimedNext]_vars

-----------------------------------------------------------------------------
(* mipsolver_c_api.cpp *)

\* MIPSolver_GetStatus: the status of a Solution as the integer the C API
\* documents for it
MIPSolver_GetStatus(status) ==
    CASE status = "OPTIMAL" -> 2
      [] status = "INFEASIBLE" -> 3
      [] status = "UNBOUNDED" -> 4
      [] status = "TIME_LIMIT" -> 5
      [] status = "ITERATION_LIMIT" -> 6
      [] OTHER -> 7

\* the integers a caller passes as the type of a constraint
ConstraintCodes == 0..2

\* the cast with GREATER_EQUAL and EQUAL in each other's place
ToConstraintTypeSwapped(type) ==
    CASE type = 0 -> "LESS_EQUAL"
      [] type = 1 -> "EQUAL"
      [] type = 2 -> "GREATER_EQUAL"

\* static_cast<MIPSolver::ConstraintType>(type): the enumerators of
\* ConstraintType are numbered from 0 in the order they are declared
ToConstraintType(type) ==
    CASE type = 0 -> "LESS_EQUAL"
      [] type = 1 -> "GREATER_EQUAL"
      [] type = 2 -> "EQUAL"

-----------------------------------------------------------------------------
(* building a Problem: the Problem model of core.h, called through the C API *)

MaxVars == 2
MaxCons == 1

\* the indices a caller passes; variables and constraints are numbered from
\* 1 here, so 0 stands for -1 and MaxVars + 1 lies beyond every Problem
VarIndices == 0..(MaxVars + 1)
ConIndices == 0..(MaxCons + 1)

\* the bounds a caller sets
BoundPairs == { << Zero, Num(1) >>, << NegInf, Num(-1) >> }

Called(op, in_range, result) == [op |-> op, in_range |-> in_range, result |-> result]

\* no solve is under way
Idle ==
    UNCHANGED <<iteration_limit_, node_stack, current_node, lp_result, best_objective,
                best_solution, nodes_processed, nodes_pruned, solution, elapsed, log>>

\* MIPSolver_CreateProblem: no variables, no constraints
BuildInit ==
    /\ \E o \in ObjectiveType :
          problem = [objective_type |-> o, variables |-> << >>, constraints |-> << >>]
    /\ pc = "build"
    /\ last_call = NoCall
    /\ iteration_limit_ = MaxIterLimit
    /\ node_stack = << >>
    /\ current_node = NoNode
    /\ lp_result = NoResult
    /\ best_objective = Zero
    /\ best_solution = << >>
    /\ nodes_processed = 0
    /\ nodes_pruned = 0
    /\ solution = NewSolution(0)
    /\ elapsed = 0
    /\ log = << >>

\* variables_[index] or constraints_[index] with an index outside the
\* vector is undefined: the call crashes, or it returns having read or
\* written memory that belongs to no element of the Problem
Undefined(op) ==
    /\ \E result \in {"crashed", "returned"} :
          /\ last_call' = Called(op, FALSE, result)
          /\ pc' = IF result = "crashed" THEN "crashed" ELSE pc
    /\ problem' = problem

\* MIPSolver_AddVariable, Problem::addVariable
AddVariable ==
    /\ pc = "build"
    /\ Len(problem.variables) < MaxVars
    /\ \E type \in VariableType :
          problem' = [problem EXCEPT !.variables = Append(@, NewVariable(type))]
    /\ last_call' = Called("addVariable", TRUE, "returned")
    /\ pc' = pc
    /\ Idle

\* MIPSolver_SetVariableBounds: getVariable(var_index).setBounds(lower, upper)
SetVariableBounds ==
    /\ pc = "build"
    /\ \E var_index \in VarIndices, b \in BoundPairs :
          IF var_index \in DOMAIN problem.variables
          THEN /\ problem' = [problem EXCEPT !.variables[var_index] = setBounds(@, b[1], b[2])]
               /\ last_call' = Called("setBounds", TRUE, "returned")
               /\ pc' = pc
          ELSE Undefined("setBounds")
    /\ Idle

\* MIPSolver_SetObjectiveCoefficient, Problem::setObjectiveCoefficient: an
\* index outside the vector is skipped
SetObjectiveCoefficient ==
    /\ pc = "build"
    /\ \E var_index \in VarIndices :
          /\ problem' = IF var_index \in DOMAIN problem.variables
                        THEN [problem EXCEPT !.variables[var_index].coefficient = Num(1)]
                        ELSE problem
          /\ last_call' = Called("setObjectiveCoefficient",
                                 var_index \in DOMAIN problem.variables, "returned")
    /\ pc' = pc
    /\ Idle

\* MIPSolver_AddConstraint, Problem::addConstraint: a constraint without terms
AddConstraint ==
    /\ pc = "build"
    /\ Len(problem.constraints) < MaxCons
    /\ \E type \in ConstraintCodes :
          /\ problem' = [problem EXCEPT !.constraints =
                            Append(@, [type |-> ToConstraintType(type),
                                       rhs |-> Num(MaxRhs), coefficients |-> << >>])]
          /\ last_call' = [op |-> "addConstraint", in_range |-> TRUE,
                           result |-> "returned", type |-> type]
    /\ pc' = pc
    /\ Idle

\* Constraint::addVariable: coefficients_[var_index] = coeff
addVariable(constraint, var_index, coeff) ==
    [constraint EXCEPT !.coefficients =
        [k \in DOMAIN constraint.coefficients \cup {var_index} |->
            IF k = var_index THEN coeff ELSE constraint.coefficients[k]]]

\* MIPSolver_AddConstraintCoefficient:
\* getConstraint(constraint_index).addVariable(var_index, coeff)
AddConstraintCoefficient ==
    /\ pc = "build"
    /\ \E constraint_index \in ConIndices, var_index \in VarIndices :
          IF constraint_index \in DOMAIN problem.constraints
          THEN /\ problem' = [problem EXCEPT !.constraints[constraint_index] =
                                  addVariable(@, var_index, Num(2))]
               /\ last_call' = Called("addConstraintCoefficient",
                                      var_index \in DOMAIN problem.variables, "returned")
               /\ pc' = pc
          ELSE Undefined("addConstraintCoefficient")
    /\ Idle

\* Problem::getVariable: the lookup by index
GetVariable ==
    /\ pc = "build"
    /\ \E index \in VarIndices :
          IF index \in DOMAIN problem.variables
          THEN /\ last_call' = Called("getVariable", TRUE, "returned")
               /\ UNCHANGED <<problem, pc>>
          ELSE Undefined("getVariable")
    /\ Idle

BuildNext ==
    \/ AddVariable
    \/ SetVariableBounds
    \/ SetObjectiveCoefficient
    \/ AddConstraint
    \/ AddConstraintCoefficient
    \/ GetVariable

BuildSpec == BuildInit /\ [][BuildNext]_vars

\* the Problems handed to MIPSolver_Solve: every term of every constraint
\* names a variable of the Problem
TermsInRange(prob) ==
    \A c \in DOMAIN prob.constraints :
        DOMAIN prob.constraints[c].coefficients \subseteq DOMAIN prob.variables

\* MIPSolver_Solve: a BranchBoundSolver is made and solve is called with the
\* Problem as it has been built (solve, lines 113-141)
Solve ==
    /\ pc = "build"
    /\ TermsInRange(problem)
    /\ pc' = "loop"
    /\ node_stack' = << [problem |-> problem, depth |-> 0,
                         bound |-> BestBound(problem.objective_type)] >>
    /\ best_objective' = WorstObjective(problem.objective_type)
    /\ best_solution' = [i \in 1..getNumVariables(problem) |-> Zero]
    /\ solution' = NewSolution(getNumVariables(problem))
    /\ last_call' = Called("solve", TRUE, "returned")
    /\ UNCHANGED <<problem, iteration_limit_, current_node, lp_result, nodes_processed,
                   nodes_pruned, elapsed, log>>

ApiNext == BuildNext \/ Solve \/ Next

ApiSpec == BuildInit /\ [][ApiNext]_vars

-----------------------------------------------------------------------------
(* properties *)

Done == pc = "done"

\* the integer points the properties compare a result with
MaxPoint == 10
PointRange == (0 - MaxRhs)..MaxPoint
Points(n) == { [i \in 1..n |-> Num(f[i])] : f \in [1..n -> PointRange] }

\* every Integer/Binary component of values is within 1e-6 of an integer
Integral(prob, values) ==
    \A i \in DOMAIN prob.variables :
        IsIntegral(prob.variables[i].type) => ~GtInv(FractionalPart(values[i]), E6)

\* values is a solution of the mixed-integer program prob
MipFeasible(prob, values) == isValidSolution(prob, values) /\ Integral(prob, values)

\* a is a strictly better objective than b
Better(a, b) == IF problem.objective_type = "MINIMIZE" THEN Lt(a, b) ELSE Gt(a, b)

Outcomes == { log[k].outcome : k \in DOMAIN log }

\* C1: whenever solve returns OPTIMAL, the returned values pass
\* Problem::isValidSolution and every Integer/Binary value is within 1e-6 of
\* an integer.
C1_OptimalIsFeasible ==
    (Done /\ solution.status = "OPTIMAL") => MipFeasible(problem, solution.values)

\* C2: whenever solve returns OPTIMAL, no assignment that satisfies bounds,
\* constraints and integrality has a strictly better objective (here: none of
\* the integer points of PointRange, by more than 1e-6).
C2_OptimalIsOptimum ==
    (Done /\ solution.status = "OPTIMAL") =>
        \A p \in Points(getNumVariables(problem)) :
            MipFeasible(problem, p) =>
                ~isBetterSolution(calculateObjectiveValue(problem, p),
                                  solution.objective_value, problem.objective_type)

\* C3: no node the loop discards (LP infeasible, bound prune, or the prune
\* after an integer-feasible LP solution) contains an integer-feasible point
\* whose objective beats the final incumbent by more than 1e-6.
C3_PruningSound ==
    Done =>
        \A k \in DOMAIN log :
            log[k].outcome \in {"lp_infeasible", "bound_pruned", "new_incumbent",
                                "integer_not_better"} =>
                \A p \in Points(getNumVariables(problem)) :
                    MipFeasible(log[k].node.problem, p) =>
                        ~isBetterSolution(calculateObjectiveValue(problem, p),
                                          best_objective, problem.objective_type)

\* C4: solve never changes the Problem it is given: kinds, bounds, objective
\* coefficients, constraints and objective sense stay what they were.
C4_ProblemNotMutated == [][problem' = problem]_vars

\* the search has branched and solve has returned
C4_Witness == Done /\ "branched" \in Outcomes

\* the interval of every variable of prob lies within its interval in outer
Within(prob, outer) ==
    \A i \in DOMAIN prob.variables :
        /\ Le(outer.variables[i].lower_bound, prob.variables[i].lower_bound)
        /\ Le(prob.variables[i].upper_bound, outer.variables[i].upper_bound)

\* C5: the bounds of every node on the frontier lie within the bounds of the
\* node it was branched from, and within those of the original Problem.
C5_BoundMonotonicity ==
    [][\A k \in DOMAIN node_stack' :
          /\ Within(node_stack'[k].problem, problem)
          /\ k > Len(node_stack) => Within(node_stack'[k].problem, current_node.problem)]_vars

\* a grandchild of the root is on the frontier
C5_Witness == \E k \in DOMAIN node_stack : node_stack[k].depth >= 2

\* C6: the incumbent objective changes only to a strictly better value
\* (smaller under MINIMIZE, larger under MAXIMIZE), and the incumbent
\* solution changes only together with it.
C6_IncumbentMonotone ==
    [][/\ best_objective' # best_objective => Better(best_objective', best_objective)
       /\ best_solution' # best_solution => best_objective' # best_objective]_vars

\* the incumbent has been replaced by a better one
C6_Witness ==
    \E j, k \in DOMAIN log :
        j < k /\ log[j].outcome = "new_incumbent" /\ log[k].outcome = "new_incumbent"

\* C7: the LP result of a popped node, and with it the Solution and the
\* sequence of nodes, is the same for every order in which the term maps of
\* the constraints are iterated.
C7_OrderIndependent ==
    pc = "node" =>
        \A ord \in MapOrders(current_node.problem) :
            lp_result = solveLPRelaxation(current_node.problem, ord)

\* the incumbent was updated at least once
IncumbentUpdated == "new_incumbent" \in Outcomes

\* the LP solution of the last incumbent update
LastIncumbent ==
    LET k == CHOOSE j \in DOMAIN log :
                 /\ log[j].outcome = "new_incumbent"
                 /\ \A i \in DOMAIN log : log[i].outcome = "new_incumbent" => i <= j
    IN  log[k].lp

\* C8: on return the status is INFEASIBLE if the incumbent was never updated,
\* else ITERATION_LIMIT if nodes_processed reached iteration_limit_, else
\* OPTIMAL; the values and objective returned are those of the last incumbent;
\* with iteration_limit_ = 1 the status is ITERATION_LIMIT or INFEASIBLE.
C8_ExitStatus ==
    Done =>
        /\ solution.status =
               IF ~IncumbentUpdated THEN "INFEASIBLE"
               ELSE IF nodes_processed >= iteration_limit_ THEN "ITERATION_LIMIT"
               ELSE "OPTIMAL"
        /\ IncumbentUpdated =>
               /\ solution.values = LastIncumbent.solution
               /\ solution.objective_value = LastIncumbent.objective_value
        /\ iteration_limit_ = 1 => solution.status \in {"ITERATION_LIMIT", "INFEASIBLE"}

\* the limit stopped a search that had an incumbent and nodes left
C8_Witness ==
    /\ Done
    /\ solution.status = "ITERATION_LIMIT"
    /\ IncumbentUpdated
    /\ node_stack # <<>>

\* a natural number that every step of solve decreases
Remaining ==
    IF pc = "done" THEN 0
    ELSE 2 * (iteration_limit_ - nodes_processed) + (IF pc = "node" THEN 2 ELSE 1)

\* C9: solve returns, as every step decreases Remaining and leaves it at 0
\* or above; every pop takes one node off the frontier and counts it, only
\* while the frontier is non-empty and nodes_processed is below
\* iteration_limit_; the iterations returned are the nodes popped and never
\* exceed iteration_limit_.
C9_Terminates ==
    [][/\ Remaining' < Remaining
       /\ Remaining' >= 0
       /\ nodes_processed' <= iteration_limit_
       /\ nodes_processed' # nodes_processed =>
              /\ LoopContinues
              /\ nodes_processed' = nodes_processed + 1
              /\ Len(node_stack') = Len(node_stack) - 1
       /\ Done' => /\ solution'.iterations = nodes_processed
                   /\ solution'.iterations = Len(log')
                   /\ solution'.iterations <= iteration_limit_]_vars

\* solve has returned after popping every node the limit allows
C9_Witness == Done /\ solution.iterations = MaxIterLimit

\* C10: once TimeLimit milliseconds have elapsed, the loop pops no further
\* node: its next step returns with status TIME_LIMIT.
C10_TimeLimitHonoured ==
    [][(pc = "loop" /\ elapsed >= TimeLimit /\ pc' # "loop") =>
          (pc' = "done" /\ solution'.status = "TIME_LIMIT")]_vars

\* the objective improves without limit along variable i: its coefficient
\* is not zero and the bound on the improving side is infinite
Improving(prob, i) ==
    LET var == prob.variables[i]
        down == (prob.objective_type = "MINIMIZE") = (Sign(var.coefficient) > 0)
    IN  /\ Sign(var.coefficient) # 0
        /\ IF down THEN var.lower_bound = NegInf ELSE var.upper_bound = PosInf

\* no constraint of prob has a term for variable i
Untouched(prob, i) ==
    \A c \in DOMAIN prob.constraints : i \notin DOMAIN prob.constraints[c].coefficients

\* C11: when the problem has a solution, and a variable that no constraint
\* touches and whose improving direction has no finite bound, solve returns
\* status UNBOUNDED.
C11_UnboundedReported ==
    (/\ Done
     /\ \E i \in DOMAIN problem.variables : Improving(problem, i) /\ Untouched(problem, i)
     /\ \E p \in Points(getNumVariables(problem)) : MipFeasible(problem, p))
        => solution.status = "UNBOUNDED"

\* C12: whenever the LP relaxation of a node is not reported infeasible,
\* every returned value lies within the bounds of its variable in the node
\* and every constraint is satisfied (Problem::isValidSolution).
C12_LPResultFeasible ==
    (pc = "node" /\ ~lp_result.is_infeasible) =>
        isValidSolution(current_node.problem, lp_result.solution)

\* C13: for Maximize 3x + 2y subject to x + y <= 4, x + 3y <= 6, x, y >= 0
\* integer, and an iteration limit above 5, solve returns OPTIMAL with
\* objective 12 at x = 4, y = 0, after 5 nodes.
C13_BranchingRequired ==
    (Done /\ problem = BranchingRequired /\ iteration_limit_ > 5) =>
        /\ solution.status = "OPTIMAL"
        /\ solution.objective_value = Num(12)
        /\ solution.values = << Num(4), Num(0) >>
        /\ solution.iterations = 5

\* solve has returned from the scenario after branching twice
C13_Witness ==
    /\ Done
    /\ problem = BranchingRequired
    /\ Cardinality({ k \in DOMAIN log : log[k].outcome = "branched" }) = 2

\* C13 as stated: the scenario returns OPTIMAL with objective 11 at x = 3,
\* y = 1.
C13_AsStated ==
    (Done /\ problem = BranchingRequired /\ iteration_limit_ > 5) =>
        /\ solution.status = "OPTIMAL"
        /\ solution.objective_value = Num(11)
        /\ solution.values = << Num(3), Num(1) >>

\* the point with every variable at 1
Ones(n) == [i \in 1..n |-> Num(1)]

\* a MAXIMIZE problem over BINARY variables with bounds [0, 1] and positive
\* objective coefficients, whose constraints are all <= and hold at Ones
AllOnesKnapsack(prob) ==
    /\ prob.objective_type = "MAXIMIZE"
    /\ \A i \in DOMAIN prob.variables :
          /\ prob.variables[i].type = "BINARY"
          /\ prob.variables[i].lower_bound = Zero
          /\ prob.variables[i].upper_bound = Num(1)
          /\ Sign(prob.variables[i].coefficient) > 0
    /\ \A c \in DOMAIN prob.constraints :
          /\ prob.constraints[c].type = "LESS_EQUAL"
          /\ Le(Lhs(prob.constraints[c], Ones(getNumVariables(prob)), IndexOrder(prob)[c]),
                prob.constraints[c].rhs)

\* what C14 expects of the returned Solution
AllOnesOptimal ==
    /\ solution.status = "OPTIMAL"
    /\ MIPSolver_GetStatus(solution.status) = 2
    /\ solution.values = Ones(getNumVariables(problem))
    /\ solution.objective_value =
           calculateObjectiveValue(problem, Ones(getNumVariables(problem)))
    /\ solution.iterations = 1

Crossed(prob) ==
    \E i \in DOMAIN prob.variables :
        GtTol(prob.variables[i].lower_bound, prob.variables[i].upper_bound, E9)

\* C15: the LP relaxation of a problem with a variable whose lower bound is
\* above its upper bound by more than 1e-9 is infeasible with no value
\* assigned, and solve called with such a problem returns INFEASIBLE after
\* exactly one node.
C15_InfeasibleBounds ==
    /\ (pc = "node" /\ Crossed(current_node.problem)) =>
           /\ lp_result.is_infeasible
           /\ \A i \in DOMAIN lp_result.solution : lp_result.solution[i] = Zero
    /\ (Done /\ Crossed(problem)) =>
           /\ solution.status = "INFEASIBLE"
           /\ solution.iterations = 1
           /\ Outcomes = {"lp_infeasible"}

\* solve has returned from a problem whose second variable has crossed
\* bounds
C15_Witness ==
    /\ Done
    /\ getNumVariables(problem) = 2
    /\ Crossed(problem)
    /\ iteration_limit_ = MaxIterLimit

\* prob has no INTEGER and no BINARY variable
AllContinuous(prob) ==
    \A i \in DOMAIN prob.variables : prob.variables[i].type = "CONTINUOUS"

\* C16: for a problem without Integer and Binary variables solve processes
\* exactly one node, never branches (no node is ever pushed) and returns
\* iterations = 1.
C16_ContinuousOneNode ==
    AllContinuous(problem) =>
        /\ nodes_processed <= 1
        /\ Len(node_stack) = (IF nodes_processed = 0 THEN 1 ELSE 0)
        /\ "branched" \notin Outcomes
        /\ Done => (solution.iterations = 1 /\ nodes_processed = 1)

\* solve has returned from a continuous problem whose LP solution is not
\* integral
C16_Witness ==
    /\ Done
    /\ AllContinuous(problem)
    /\ iteration_limit_ = MaxIterLimit
    /\ \E i \in DOMAIN solution.values : GtInv(FractionalPart(solution.values[i]), E6)

\* some constraint of prob has no terms and 0 <type> rhs does not hold
\* (Constraint::isSatisfied, tolerance 1e-9)
EmptyViolated(prob) ==
    \E c \in DOMAIN prob.constraints :
        /\ DOMAIN prob.constraints[c].coefficients = {}
        /\ ~isSatisfied(prob.constraints[c], << >>, << >>)

\* C17: when a constraint without terms does not hold, however small the
\* violation, the LP relaxation is infeasible and solve returns INFEASIBLE.
C17_EmptyConstraint ==
    /\ (pc = "node" /\ EmptyViolated(current_node.problem)) => lp_result.is_infeasible
    /\ (Done /\ EmptyViolated(problem)) => solution.status = "INFEASIBLE"

\* C18: every call of the Problem model with a variable or constraint index
\* outside the Problem signals InvalidIndex and leaves the Problem unchanged.
C18_InvalidIndexSignalled ==
    [][~last_call'.in_range =>
          (last_call'.result = "InvalidIndex" /\ problem' = problem)]_vars

\* C19: every BINARY variable of a Problem has lower >= 0 and upper <= 1,
\* from the moment it is added.
C19_BinaryWithinUnit ==
    \A i \in DOMAIN problem.variables :
        problem.variables[i].type = "BINARY" =>
            /\ Ge(problem.variables[i].lower_bound, Zero)
            /\ Le(problem.variables[i].upper_bound, Num(1))

\* C20: every key of the term map of every constraint is the index of a
\* variable of the same Problem.
C20_TermKeysExist ==
    \A c \in DOMAIN problem.constraints :
        DOMAIN problem.constraints[c].coefficients \subseteq DOMAIN problem.variables

\* the sense the specification gives the integer a caller passes
Sense(code) ==
    CASE code = 0 -> "LESS_EQUAL"
      [] code = 1 -> "GREATER_EQUAL"
      [] code = 2 -> "EQUAL"

\* values meets the constraint in its sense, up to the 0.1 the LP accepts
Enforced(constraint, values) ==
    LET lhs == Lhs(constraint, values, SortedKeys(DOMAIN constraint.coefficients))
        tenth == Q(AcceptTenths, 10)
    IN  CASE constraint.type = "LESS_EQUAL" -> Lt(lhs, Add(constraint.rhs, tenth))
          [] constraint.type = "GREATER_EQUAL" -> Gt(lhs, Sub(constraint.rhs, tenth))
          [] constraint.type = "EQUAL" -> Lt(FAbs(Sub(lhs, constraint.rhs)), tenth)

Processed ==
    [k \in 1..nodes_processed |-> IF k <= Len(log) THEN log[k].node ELSE current_node]

\* <<up child, down child>> of the node of log entry k, for every variable
\* the branching can have chosen
ChildPairs(k) ==
    { << [problem |-> addBound(log[k].node.problem, j, Ceil(log[k].lp.solution[j]), PosInf),
          depth |-> log[k].node.depth + 1, bound |-> log[k].lp.objective_value],
         [problem |-> addBound(log[k].node.problem, j, NegInf, Floor(log[k].lp.solution[j])),
          depth |-> log[k].node.depth + 1, bound |-> log[k].lp.objective_value] >> :
        j \in BranchingVariables(log[k].lp.solution, problem) \ {0} }

\* node is anc or lies in the subtree below it
Descends(node, anc) == node.depth >= anc.depth /\ Within(node.problem, anc.problem)

\* C22: the node processed right after a branched node is its Down child;
\* until then the Down child lies on top of the frontier with the Up child
\* right below it; and when the Up child is processed, every node processed
\* in between descends from the Down child and no node that does is left on
\* the frontier.
C22_DownChildFirst ==
    \A k \in DOMAIN log :
        log[k].outcome = "branched" =>
            \E pair \in ChildPairs(k) :
                /\ k = nodes_processed =>
                       /\ Len(node_stack) >= 2
                       /\ node_stack[Len(node_stack)] = pair[2]
                       /\ node_stack[Len(node_stack) - 1] = pair[1]
                /\ k < nodes_processed => Processed[k + 1] = pair[2]
                /\ \A m \in (k + 2)..nodes_processed :
                       Processed[m] = pair[1] =>
                           /\ \A i \in (k + 1)..(m - 1) : Descends(Processed[i], pair[2])
                           /\ \A q \in DOMAIN node_stack :
                                  ~Descends(node_stack[q], pair[2])
                /\ \A q \in DOMAIN node_stack :
                       node_stack[q] = pair[1] =>
                           \A i \in (k + 1)..nodes_processed : Descends(Processed[i], pair[2])

\* the Up child of a node is being processed after the Down child and two
\* nodes below the Down child
C22_Witness ==
    \E k \in DOMAIN log :
        /\ log[k].outcome = "branched"
        /\ k + 4 <= nodes_processed
        /\ \E pair \in ChildPairs(k) :
              /\ Processed[k + 1] = pair[2]
              /\ Processed[k + 4] = pair[1]

\* the Integer/Binary variables of prob whose value in sol is more than 1e-6
\* from the nearest integer
Fractional(sol, prob) ==
    { i \in DOMAIN prob.variables :
        IsIntegral(prob.variables[i].type) /\ GtInv(FractionalPart(sol[i]), E6) }

\* C23: findBranchingVariable returns no variable exactly when no
\* Integer/Binary variable is more than 1e-6 from an integer; otherwise it
\* returns such a variable, whose fractional part no other such variable
\* exceeds and no such variable of a smaller index equals.
C23_MostFractionalFirst ==
    pc = "node" =>
        LET sol == lp_result.solution
            r == findBranchingVariable(sol, problem)
        IN  /\ r = 0 <=> Fractional(sol, problem) = {}
            /\ r # 0 =>
                  /\ r \in Fractional(sol, problem)
                  /\ \A i \in Fractional(sol, problem) :
                        /\ Le(FractionalPart(sol[i]), FractionalPart(sol[r]))
                        /\ i < r => Lt(FractionalPart(sol[i]), FractionalPart(sol[r]))

\* the LP solution of a node has two Integer/Binary variables with the same
\* fractional part above 1e-6
C23_Witness ==
    /\ pc = "node"
    /\ \E i, j \in Fractional(lp_result.solution, problem) :
          /\ i < j
          /\ FractionalPart(lp_result.solution[i]) = FractionalPart(lp_result.solution[j])

\* the value C24 gives a variable before the repair: the fixed value, else
\* the bound that an objective coefficient >= 0 favours (lower under
\* MINIMIZE, upper under MAXIMIZE) or the other bound for a coefficient < 0,
\* with 100 for +inf and 0 for -inf
FavourableBound(var, objective_type) ==
    IF LtInv(FAbs(Sub(var.lower_bound, var.upper_bound)), E9)
    THEN var.lower_bound
    ELSE
      LET chosen ==
            IF (objective_type = "MINIMIZE") = Ge(var.coefficient, Zero)
            THEN var.lower_bound
            ELSE var.upper_bound
      IN  IF chosen = PosInf THEN Num(SentinelUpper)
          ELSE IF chosen = NegInf THEN Zero
          ELSE chosen

\* C24: the LP of a node starts every variable at FavourableBound; with no
\* constraint to repair, that is the value the LP returns for it.
C24_InitialAssignment ==
    pc = "node" =>
        \A i \in DOMAIN current_node.problem.variables :
            LET var == current_node.problem.variables[i]
            IN  /\ InitialValue(var, current_node.problem.objective_type) =
                       FavourableBound(var, current_node.problem.objective_type)
                /\ (current_node.problem.constraints = << >> /\ ~lp_result.is_infeasible) =>
                       lp_result.solution[i] =
                           FavourableBound(var, current_node.problem.objective_type)

\* the repair of the LP of prob, its term maps iterated in the orders ord
Repair(prob, ord) ==
    satisfyConstraints(prob, ord,
        [i \in 1..getNumVariables(prob) |->
            InitialValue(prob.variables[i], prob.objective_type)])

\* the total violation of the point the repair ends at
FinalViolation(prob, ord) == TotalViolation(prob, ord, Repair(prob, ord).solution, 1, Zero)

\* C25: the LP of a node is infeasible only if the bounds of a variable are
\* crossed, or the repair has used all its 20 iterations and ends at a
\* total violation above 0.1; a repair that ends at a total violation of at
\* most 0.1 is accepted.
C25_InfeasibleOnlyAfterRepair ==
    pc = "node" =>
        \A ord \in MapOrders(current_node.problem) :
            (lp_result = solveLPRelaxation(current_node.problem, ord)
             /\ ~Crossed(current_node.problem)) =>
                /\ lp_result.is_infeasible =>
                       /\ Repair(current_node.problem, ord).iter = MAX_ITERATIONS
                       /\ Gt(FinalViolation(current_node.problem, ord), Q(AcceptTenths, 10))
                /\ Le(FinalViolation(current_node.problem, ord), Q(AcceptTenths, 10)) =>
                       ~lp_result.is_infeasible

\* C26: a step that branches appends two nodes to the frontier: first a copy
\* of the Problem of the node with lower_j = max(lower_j, ceil(x)), then a
\* copy with upper_j = min(upper_j, floor(x)), for one variable j with LP
\* value x, everything else as in the node; and no step changes a node that
\* stays on the frontier, a node processed before, or the Problem of the
\* caller.
C26_ChildrenFrame ==
    [][/\ Len(node_stack') = Len(node_stack) + 2 =>
              \E j \in DOMAIN current_node.problem.variables :
                  /\ node_stack'[Len(node_stack) + 1].problem =
                         [current_node.problem EXCEPT !.variables[j].lower_bound =
                             FMax(@, Ceil(lp_result.solution[j]))]
                  /\ node_stack'[Len(node_stack) + 2].problem =
                         [current_node.problem EXCEPT !.variables[j].upper_bound =
                             FMin(@, Floor(lp_result.solution[j]))]
       /\ \A q \in DOMAIN node_stack \cap DOMAIN node_stack' : node_stack'[q] = node_stack[q]
       /\ \A k \in DOMAIN log : log'[k] = log[k]
       /\ pc = "node" => current_node' = current_node
       /\ problem' = problem]_vars

\* a node of a Problem with two variables has just been branched while
\* another node was waiting on the frontier
C26_Witness ==
    /\ pc = "loop"
    /\ log # << >>
    /\ log[Len(log)].outcome = "branched"
    /\ Len(node_stack) >= 3
    /\ getNumVariables(problem) >= 2

\* C27: whenever an incumbent exists, its Integer/Binary components are
\* integers and its objective is the objective of that vector, and so are
\* the values and the objective of the Solution solve returns.
C27_IncumbentRounded ==
    /\ IncumbentUpdated =>
           /\ \A i \in DOMAIN problem.variables :
                  IsIntegral(problem.variables[i].type) =>
                      best_solution[i] = Round(best_solution[i])
           /\ best_objective = calculateObjectiveValue(problem, best_solution)
    /\ (Done /\ IncumbentUpdated) =>
           /\ \A i \in DOMAIN problem.variables :
                  IsIntegral(problem.variables[i].type) =>
                      solution.values[i] = Round(solution.values[i])
           /\ solution.objective_value = calculateObjectiveValue(problem, solution.values)

\* z lies within the bounds of variable j of prob
InRange(z, prob, j) ==
    Le(prob.variables[j].lower_bound, z) /\ Le(z, prob.variables[j].upper_bound)

\* the integers around x
IntegersNear(x) == { Add(Floor(x), Num(d)) : d \in (0 - MaxPoint)..MaxPoint }

\* C28: a step that branches on variable j with LP value x pushes an Up
\* child and a Down child with upper_j(Down) <= floor(x) < x < ceil(x) <=
\* lower_j(Up): x lies in the range of neither child, no value lies in both
\* ranges, and every integer within the bounds of j in the node lies in the
\* range of exactly one child.
C28_BranchingPartitions ==
    [][Len(node_stack') = Len(node_stack) + 2 =>
          LET up == node_stack'[Len(node_stack) + 1].problem
              down == node_stack'[Len(node_stack) + 2].problem
          IN  \E j \in DOMAIN current_node.problem.variables :
                  LET x == lp_result.solution[j]
                  IN  /\ \A i \in DOMAIN current_node.problem.variables \ {j} :
                            /\ up.variables[i] = current_node.problem.variables[i]
                            /\ down.variables[i] = current_node.problem.variables[i]
                      /\ Le(down.variables[j].upper_bound, Floor(x))
                      /\ Lt(Floor(x), x)
                      /\ Lt(x, Ceil(x))
                      /\ Le(Ceil(x), up.variables[j].lower_bound)
                      /\ ~InRange(x, down, j)
                      /\ ~InRange(x, up, j)
                      /\ Lt(down.variables[j].upper_bound, up.variables[j].lower_bound)
                      /\ \A z \in IntegersNear(x) :
                            InRange(z, current_node.problem, j) =>
                                (InRange(z, down, j) # InRange(z, up, j))]_vars

\* a variable with bounds [0, 1] has just been branched: it is fixed at 0
\* in the node on top of the frontier and at 1 in the node below it
C28_Witness ==
    /\ pc = "loop"
    /\ log # << >>
    /\ log[Len(log)].outcome = "branched"
    /\ Len(node_stack) >= 2
    /\ \E j \in DOMAIN problem.variables :
          /\ InRange(Zero, log[Len(log)].node.problem, j)
          /\ InRange(Num(1), log[Len(log)].node.problem, j)
          /\ node_stack[Len(node_stack)].problem.variables[j].upper_bound = Zero
          /\ node_stack[Len(node_stack) - 1].problem.variables[j].lower_bound = Num(1)

\* C29: while no node has been taken as incumbent, best_solution is all
\* zero and best_objective is +inf (MINIMIZE) or -inf (MAXIMIZE); from then
\* on they are the solution and the objective of the LP of the node taken
\* last, and best_objective is the objective of best_solution; the Solution
\* solve returns carries this pair.
C29_IncumbentConsistent ==
    /\ ~IncumbentUpdated =>
           /\ best_solution = [i \in 1..getNumVariables(problem) |-> Zero]
           /\ best_objective = WorstObjective(problem.objective_type)
    /\ IncumbentUpdated =>
           /\ best_solution = LastIncumbent.solution
           /\ best_objective = LastIncumbent.objective_value
           /\ best_objective = calculateObjectiveValue(problem, best_solution)
    /\ Done =>
           /\ solution.values = best_solution
           /\ solution.objective_value = best_objective

\* solve has returned an incumbent that replaced an earlier one
C29_Witness ==
    /\ Done
    /\ Cardinality({ k \in DOMAIN log : log[k].outcome = "new_incumbent" }) >= 2
    /\ solution.objective_value # Zero

====
